---- MODULE Spec2Model ----
(***************************************************************************)
(* Model of the pysat test-instrument support routines                     *)
(* (pysat/instruments/methods/testing.py and the instrument modules that   *)
(* bind them).  The routines are pure functions of their arguments; the    *)
(* state of the model is the last call made and what it returned or        *)
(* raised.                                                                 *)
(*                                                                         *)
(* Conventions                                                             *)
(*   - a timestamp at daily granularity is the number of days since        *)
(*     1970-01-01 (the integer pandas keeps, divided by one day);          *)
(*   - a Python string is the sequence of its characters;                  *)
(*   - an optional argument is <<>> for None and <<v>> for the value v;    *)
(*   - whole seconds are integers; a float result of the cyclic signal is  *)
(*     the exact fraction [num, den];                                      *)
(*   - effects holds what the last call did beside returning: the          *)
(*     categories of the warnings it issued, the remote retrievals it      *)
(*     attempted, the attributes it set;                                   *)
(*   - params is the pysat Parameters store: the values in memory and the  *)
(*     values in the settings file.                                        *)
(***************************************************************************)
EXTENDS Integers, Sequences, FiniteSets, TLC

VARIABLES call, ret, effects, params

vars == <<call, ret, effects, params>>

None == <<>>
Some(v) == <<v>>
IsNone(x) == Len(x) = 0

Return(v) == [exc |-> "none", val |-> v]
Raise(e) == [exc |-> e, val |-> <<>>]

Min(a, b) == IF a <= b THEN a ELSE b

-----------------------------------------------------------------------------
(* Bounds of the explored inputs *)

\* reference dates are drawn from RootYear - YearsBack .. RootYear + YearsFwd
YearsBack == 1
YearsFwd == 0
\* longest explicit file_date_range handed to list_files
MaxRangeLen == 2

\* longest offset array handed to generate_fake_data
MaxLen == 3
\* origins run over -MaxT0..MaxT0, beside the midnights around the root
MaxT0 == 1
\* a short period, so that small origins and offsets wrap
SmallPeriod == 7
\* number of periods an origin is shifted by, either way
MaxShift == 2

\* most filenames handed to generate_times, and the largest sample count
MaxFiles == 2
MaxNum == 3
MaxDates == 3
MaxListed == 2
MaxModules == 2
MaxPairs == 2
TestingDirLimit == 20

\* year of the test instruments' reference date, dt.datetime(2009, 1, 1)
RootYear == 2009
\* define_period(): 'lt' and 'angle', 'lon'
LtPeriod == 5820
LonPeriod == 6240
\* seconds in a day
SecPerDay == 86400

-----------------------------------------------------------------------------
(* Calendar arithmetic of pandas Timestamps and DateOffsets *)

IsLeap(y) == (y % 4 = 0 /\ y % 100 # 0) \/ y % 400 = 0

DaysInMonth(y, m) ==
    IF m = 2 THEN (IF IsLeap(y) THEN 29 ELSE 28)
    ELSE IF m \in {4, 6, 9, 11} THEN 30 ELSE 31

\* days since 1970-01-01 of the civil date c = [y, m, d]
DaysFromCivil(c) ==
    LET y == IF c.m <= 2 THEN c.y - 1 ELSE c.y
        era == y \div 400
        yoe == y - era * 400
        mp == IF c.m > 2 THEN c.m - 3 ELSE c.m + 9
        doy == (153 * mp + 2) \div 5 + c.d - 1
        doe == yoe * 365 + yoe \div 4 - yoe \div 100 + doy
    IN era * 146097 + doe - 719468

\* civil date of the day z days after 1970-01-01
CivilFromDays(z) ==
    LET zz == z + 719468
        era == zz \div 146097
        doe == zz - era * 146097
        yoe == (doe - doe \div 1460 + doe \div 36524 - doe \div 146096) \div 365
        doy == doe - (365 * yoe + yoe \div 4 - yoe \div 100)
        mp == (5 * doy + 2) \div 153
        d == doy - (153 * mp + 2) \div 5 + 1
        m == IF mp < 10 THEN mp + 3 ELSE mp - 9
        y == yoe + era * 400
    IN [y |-> IF m <= 2 THEN y + 1 ELSE y, m |-> m, d |-> d]

\* t + pds.DateOffset(years=n): the year moves, the day is clamped to the month
AddYears(t, n) ==
    LET c == CivilFromDays(t)
        y == c.y + n
    IN DaysFromCivil([y |-> y, m |-> c.m, d |-> Min(c.d, DaysInMonth(y, c.m))])

\* t + pds.DateOffset(months=n): calendar months, the day clamped to the month
AddMonths(t, n) ==
    LET c == CivilFromDays(t)
        k == c.y * 12 + (c.m - 1) + n
        y == k \div 12
        m == (k % 12) + 1
    IN DaysFromCivil([y |-> y, m |-> m, d |-> Min(c.d, DaysInMonth(y, m))])

\* t + pds.DateOffset(days=n)
AddDays(t, n) == t + n

\* pds.date_range(start, stop): every day from start to stop, both included
date_range(start, stop) ==
    IF stop < start THEN <<>> ELSE [i \in 1..(stop - start + 1) |-> start + i - 1]

-----------------------------------------------------------------------------
(* Strings *)

DigitChars == <<"0", "1", "2", "3", "4", "5", "6", "7", "8", "9">>
Digit(n) == DigitChars[n + 1]

\* (a slip: '%-m', no padding)
Pad2Bare(n) == IF n < 10 THEN <<Digit(n)>> ELSE <<Digit(n \div 10), Digit(n % 10)>>

\* '%m' and '%d': two digits, zero padded
Pad2(n) == <<Digit(n \div 10), Digit(n % 10)>>

\* '%Y' of a year pandas can hold (1677..2262): four digits
Year4(y) ==
    <<Digit(y \div 1000), Digit((y \div 100) % 10), Digit((y \div 10) % 10), Digit(y % 10)>>

\* date.strftime('%Y-%m-%d')
strftime(t) ==
    LET c == CivilFromDays(t)
    IN Year4(c.y) \o <<"-">> \o Pad2(c.m) \o <<"-">> \o Pad2(c.d)

NoFile == <<".", "n", "o", "f", "i", "l", "e">>

-----------------------------------------------------------------------------
(* The fake file catalog: list_files and list_remote_files *)

\* default window of list_files
ListFilesStart(ref) == AddYears(ref, -1)

\* (a slip: the last day is not taken off)
ListFilesStopWholeYears(ref) == AddYears(ref, 2)

ListFilesStop(ref) == AddDays(AddYears(ref, 2), -1)

\* the filename of one catalog entry
FileName(data_path, t) == data_path \o strftime(t) \o NoFile

\* (a slip: an absent reference date yields an empty catalog)
list_files_silent(data_path, file_date_range, test_dates) ==
    LET dp == IF IsNone(data_path) THEN <<>> ELSE data_path[1]
        index == IF ~IsNone(file_date_range) THEN file_date_range[1]
                 ELSE IF IsNone(test_dates) THEN <<>>
                 ELSE date_range(ListFilesStart(test_dates[1]),
                                 ListFilesStop(test_dates[1]))
    IN Return([index |-> index,
               names |-> [i \in 1..Len(index) |-> FileName(dp, index[i])]])

list_files(data_path, file_date_range, test_dates) ==
    LET dp == IF IsNone(data_path) THEN <<>> ELSE data_path[1]
    IN IF IsNone(file_date_range) /\ IsNone(test_dates)
       THEN Raise("TypeError")  \* None is not subscriptable
       ELSE LET index == IF IsNone(file_date_range)
                         THEN date_range(ListFilesStart(test_dates[1]),
                                         ListFilesStop(test_dates[1]))
                         ELSE file_date_range[1]
            IN Return([index |-> index,
                       names |-> [i \in 1..Len(index) |-> FileName(dp, index[i])]])

\* (a slip: a month taken as 30 days)
RemoteStopThirtyDays(ref) == AddDays(AddDays(AddYears(ref, 2), -1), 30)

\* (a slip: the month added before the day is taken off)
RemoteStopMonthFirst(ref) == AddDays(AddMonths(AddYears(ref, 2), 1), -1)

\* default stop of list_remote_files
RemoteStop(ref) == AddMonths(AddDays(AddYears(ref, 2), -1), 1)

list_remote_files(data_path, start, stop, test_dates) ==
    IF (IsNone(start) \/ IsNone(stop)) /\ IsNone(test_dates)
    THEN Raise("TypeError")
    ELSE LET s == IF IsNone(start) THEN AddYears(test_dates[1], -1) ELSE start[1]
             e == IF IsNone(stop) THEN RemoteStop(test_dates[1]) ELSE stop[1]
         IN list_files(data_path, Some(date_range(s, e)), test_dates)

-----------------------------------------------------------------------------
(* The synthetic signal: generate_fake_data *)

\* (a slip: the remainder takes the sign of the dividend, as C's fmod does)
fmod(a, p) == IF a >= 0 THEN a % p ELSE -((-a) % p)

\* np.mod(a, p) for a positive p: the remainder takes the sign of the divisor
npmod(a, p) == a % p

\* (a slip: the sum of phase and offset is not wrapped)
CyclicPhaseNoWrap(t0, o, period) == npmod(t0, period) + o

\* np.mod(uts_root + num_array, period), with uts_root = np.mod(t0, period)
CyclicPhase(t0, o, period) == npmod(npmod(t0, period) + o, period)

\* phase * (np.diff(data_range)[0] / float(period)) + data_range[0], exactly
Scale(phase, period, data_range) ==
    [num |-> phase * (data_range[2] - data_range[1]) + data_range[1] * period,
     den |-> period]

\* (a slip: the magnitude is divided and the sign forgotten)
astype_int_abs(x, period) == (IF x >= 0 THEN x ELSE -x) \div period

\* (x / period).astype(int): the quotient loses its fraction, towards zero
astype_int(x, period) ==
    IF x >= 0 THEN x \div period ELSE -((-x) \div period)

generate_fake_data(t0, num_array, period, data_range, cyclic) ==
    IF cyclic
    THEN [i \in 1..Len(num_array) |->
            Scale(CyclicPhase(t0, num_array[i], period), period, data_range)]
    ELSE [i \in 1..Len(num_array) |-> astype_int(t0 + num_array[i], period)]

-----------------------------------------------------------------------------
(* The sample index: generate_times *)

Max(a, b) == IF a >= b THEN a ELSE b

\* os.path.split(fname)[-1]: what follows the last '/'
basename(q) ==
    LET slashes == {i \in 1..Len(q) : q[i] = "/"}
    IN IF slashes = {} THEN q
       ELSE SubSeq(q, (CHOOSE i \in slashes : \A j \in slashes : j <= i) + 1, Len(q))

\* q.split(sep)
RECURSIVE split(_, _)
split(q, sep) ==
    LET at == {i \in 1..Len(q) : q[i] = sep}
    IN IF at = {} THEN <<q>>
       ELSE LET i == CHOOSE i \in at : \A j \in at : i <= j
            IN <<SubSeq(q, 1, i - 1)>> \o split(SubSeq(q, i + 1, Len(q)), sep)

IsDecimal(q) == Len(q) > 0 /\ \A i \in 1..Len(q) : \E v \in 0..9 : DigitChars[v + 1] = q[i]

\* int(q) of a string of decimal digits
RECURSIVE int(_)
int(q) ==
    IF Len(q) = 0 THEN 0
    ELSE 10 * int(SubSeq(q, 1, Len(q) - 1))
           + (CHOOSE v \in 0..9 : DigitChars[v + 1] = q[Len(q)])

\* dt.datetime(yr, month, day) accepts the date
ValidDate(yr, month, day) ==
    /\ yr \in 1..9999
    /\ month \in 1..12
    /\ day \in 1..DaysInMonth(yr, month)

\* the date a filename encodes: its midnight, or the exception raised by the
\* first of int(parts[0]), int(parts[1]), int(parts[2][0:2]), dt.datetime(...)
\* that fails
parse_date(fname) ==
    LET parts == split(basename(fname), "-")
        day == SubSeq(parts[3], 1, Min(2, Len(parts[3])))
    IN IF ~IsDecimal(parts[1]) THEN Raise("ValueError")
       ELSE IF Len(parts) < 2 THEN Raise("IndexError")
       ELSE IF ~IsDecimal(parts[2]) THEN Raise("ValueError")
       ELSE IF Len(parts) < 3 THEN Raise("IndexError")
       ELSE IF ~IsDecimal(day) THEN Raise("ValueError")
       ELSE IF ~ValidDate(int(parts[1]), int(parts[2]), int(day))
       THEN Raise("ValueError")
       ELSE Return(DaysFromCivil([y |-> int(parts[1]), m |-> int(parts[2]),
                                  d |-> int(day)]))

\* number of ticks of pds.date_range(start=date, end=date + 86399 s, freq=freq)
TicksPerDay(freq) == (SecPerDay - 1) \div freq + 1

\* q[0:num] keeps this many of n entries
SliceLen(n, num) == IF num >= 0 THEN Min(num, n) ELSE Max(n + num, 0)

\* pds.date_range(start=date, end=end_date, freq=freq)[0:num], in seconds since
\* 1970-01-01
day_index(date, freq, num) ==
    [k \in 1..SliceLen(TicksPerDay(freq), num) |-> date * SecPerDay + (k - 1) * freq]

\* (a slip: the file's place in the list is not counted)
file_uts_same_day(ts, loop) == ts % SecPerDay

\* index.hour * 3600 + index.minute * 60 + index.second + 86400. * loop
file_uts(ts, loop) == (ts % SecPerDay) + SecPerDay * loop

RECURSIVE times_loop(_, _, _, _, _)
times_loop(fnames, num, freq, loop, acc) ==
    IF loop >= Len(fnames) THEN Return(acc)
    ELSE LET date == parse_date(fnames[loop + 1])
         IN IF date.exc # "none" THEN date
            ELSE LET index == day_index(date.val, freq, num)
                 IN times_loop(fnames, num, freq, loop + 1,
                       [uts |-> acc.uts \o [k \in 1..Len(index) |-> file_uts(index[k], loop)],
                        index |-> acc.index \o index,
                        dates |-> Append(acc.dates, date.val)])

generate_times(fnames, num, freq) ==
    times_loop(fnames, num, freq, 0, [uts |-> <<>>, index |-> <<>>, dates |-> <<>>])

\* generate_times with the count as Python passes it: num is
\* [str |-> FALSE, v |-> an integer] or [str |-> TRUE, v |-> a text].  A text
\* draws the deprecation warning and then reaches index[0:num] as it is, where
\* a slice bound that is a str raises TypeError
generate_times_num(fnames, num, freq) ==
    [warnings |-> IF num.str THEN <<"DeprecationWarning">> ELSE <<>>,
     ret |-> IF ~num.str THEN generate_times(fnames, num.v, freq)
             ELSE IF Len(fnames) = 0
             THEN Return([uts |-> <<>>, index |-> <<>>, dates |-> <<>>])
             ELSE LET date == parse_date(fnames[1])
                  IN IF date.exc # "none" THEN date ELSE Raise("TypeError")]

-----------------------------------------------------------------------------
(* Inputs *)

RefMonths == {1, 2, 3, 12}
RefDays == {1, 28, 29, 31}

\* reference dates: starts and ends of months, leap days included
RefDates ==
    {DaysFromCivil([y |-> y, m |-> m, d |-> d]) :
        <<y, m, d>> \in {c \in ((RootYear - YearsBack)..(RootYear + YearsFwd))
                                  \X RefMonths \X RefDays :
                             c[3] <= DaysInMonth(c[1], c[2])}}

Root == DaysFromCivil([y |-> RootYear, m |-> 1, d |-> 1])

DataPaths == {None, Some(<<"d", "/">>)}

\* explicit ranges: a few consecutive days around the end of February
RangeStarts == {Root, DaysFromCivil([y |-> RootYear - 1, m |-> 2, d |-> 28])}
ExplicitRanges ==
    {date_range(s, s + n - 1) : <<s, n>> \in RangeStarts \X (0..MaxRangeLen)}

OptDates == {None} \cup {Some(r) : r \in RefDates}
OptRanges == {None} \cup {Some(r) : r \in ExplicitRanges}
OptBounds == {None, Some(Root), Some(Root + MaxRangeLen)}


\* sequences over S of length at most n
SeqsUpTo(S, n) == UNION {[1..k -> S] : k \in 0..n}

\* origins: around zero, and the midnights around the root, alone and 20 s on
Origins ==
    (-MaxT0..MaxT0) \cup {k * SecPerDay + j : <<k, j>> \in {-1, 0, 1} \X {0, 20}}
OffsetValues == {-1, 0, 1, 100, LtPeriod}
Periods == {SmallPeriod, LtPeriod, LonPeriod}
DataRanges == {<<0, 24>>, <<0, 360>>, <<-90, 90>>}


\* filenames: catalog names in and out of date order, and names that do not parse
FileNames ==
    {FileName(<<>>, Root), FileName(<<"d", "/">>, Root - 1),
     FileName(<<"d", "/">>, Root + 1),
     FileName(<<"a", "-", "b", "/">>, DaysFromCivil([y |-> RootYear - 1, m |-> 2, d |-> 29])),
     <<"d", "/", "2", "0", "0", "9", "-", "0", "2", "-", "3", "0", ".", "n", "o", "f", "i", "l", "e">>, <<"x", "-", "2", "0", "0", "9", "-", "0", "1", "-", "0", "1", ".", "n", "o", "f", "i", "l", "e">>, <<"2", "0", "0", "9", "-", "0", "1">>}
\* frequencies in seconds: '1S' (the default), '100S' (load), '12H', 'D'
Freqs == {1, 100, 43200, SecPerDay}

\* sample counts given as text
NumTexts == {<<"0">>, <<"3">>, <<"1", "2">>}

-----------------------------------------------------------------------------
(* The loader of the 2-D xarray instrument: load *)

\* the parameters generate_times declares
GenerateTimesParams == {"fnames", "num", "freq"}

\* generate_times(fnames, num, ...) called with the arguments named in
\* keywords passed by keyword: Python binds the arguments before the body
\* runs, and a keyword the definition does not declare raises TypeError
generate_times_kw(fnames, num, freq, keywords) ==
    IF ~(keywords \subseteq GenerateTimesParams) THEN Raise("TypeError")
    ELSE generate_times(fnames, num, freq)

\* q[a:b] for 0 <= a <= b
Slice(q, a, b) == SubSeq(q, Min(a, Len(q)) + 1, Min(b, Len(q)))

\* q[a:b] = v for a list q and 0 <= a <= b: the slice, as far as it lies within
\* the list, is replaced by v, whatever the length of v
SliceAssign(q, a, b, v) == Slice(q, 0, a) \o v \o Slice(q, b, Len(q))

\* index[0:3], index[3:6] = index[3:6], index[0:3]: both slices are read
\* before either is written, the writes go left to right
swap(index) ==
    LET right == <<Slice(index, 3, 6), Slice(index, 0, 3)>>
    IN SliceAssign(SliceAssign(index, 0, 3, right[1]), 3, 6, right[2])

\* the index of a malformed load: index.tolist(), the swap of the first two
\* blocks of three, then index[6:9] = [index[6]] * 3
malform(index) ==
    LET swapped == swap(index)
    IN IF Len(swapped) < 7 THEN Raise("IndexError")
       ELSE Return(SliceAssign(swapped, 6, 9, [k \in 1..3 |-> swapped[7]]))

\* the truncation of a non-negative fraction: .astype(int)
frac_int(x, divisor) == x.num \div (x.den * divisor)

\* the fields load derives from uts and the first date: the signals in their
\* units, the angle in turns (latitude is 90 cos of it)
signals(uts, t0) ==
    LET mlt == generate_fake_data(t0, uts, LtPeriod, <<0, 24>>, TRUE)
        longitude == generate_fake_data(t0, uts, LonPeriod, <<0, 360>>, TRUE)
        mlt_int == [k \in 1..Len(uts) |-> frac_int(mlt[k], 1)]
        long_int == [k \in 1..Len(uts) |-> frac_int(longitude[k], 15)]
    IN [uts |-> uts,
        mlt |-> mlt,
        slt |-> generate_fake_data(t0 + 20, uts, LtPeriod, <<0, 24>>, TRUE),
        longitude |-> longitude,
        latitude |-> generate_fake_data(t0, uts, LtPeriod, <<0, 1>>, TRUE),
        dummy1 |-> mlt_int,
        dummy2 |-> long_int,
        dummy3 |-> [k \in 1..Len(uts) |-> mlt_int[k] + long_int[k] * 1000],
        dummy4 |-> uts]

\* what the routines of methods/testing.py named by load are
MethodsTesting ==
    {"init", "clean", "preprocess", "list_files", "list_remote_files",
     "download", "generate_fake_data", "generate_times", "define_period",
     "define_range", "modify_file_list_support"}

\* load: generate_times called with the keywords freq and start_time, the
\* index malformed on request, the dataset built on the index (xarray refuses
\* variables whose length is not the length of the coordinate), the signals
\* from dates[0], the metadata from mm_test.initialize_test_meta
load(fnames, malformed_index, start_time, num_samples) ==
    LET times == generate_times_kw(fnames, num_samples, 100, {"freq", "start_time"})
        index == IF malformed_index THEN malform(times.val.index)
                 ELSE Return(times.val.index)
    IN IF times.exc # "none" THEN times
       ELSE IF index.exc # "none" THEN index
       ELSE IF Len(index.val) # Len(times.val.uts) THEN Raise("ValueError")
       ELSE IF Len(times.val.dates) = 0 THEN Raise("IndexError")
       ELSE IF "initialize_test_meta" \notin MethodsTesting
       THEN Raise("AttributeError")
       ELSE Return([time |-> index.val,
                    data |-> signals(times.val.uts,
                                     (times.val.dates[1] - Root) * SecPerDay),
                    meta |-> "meta"])

\* the sample caps of a load: none, too few for the three blocks, just
\* enough, and more
LoadSamples == {0, 5, 7, 9, 12}

\* start_time: None or a timedelta, in seconds
StartTimes == {None, Some(0), Some(3600)}

-----------------------------------------------------------------------------
(* The download of the test instruments: download *)

\* not x, for x None or a str
falsy(x) == IsNone(x) \/ Len(x[1]) = 0

\* (a slip: one missing credential is enough to refuse)
credentials_missing_either(user, password) == falsy(user) \/ falsy(password)

\* (not user) and (not password)
credentials_missing(user, password) == falsy(user) /\ falsy(password)

\* warnings.warn(message, category=None): the category of the warning issued
warn(category) == IF IsNone(category) THEN "UserWarning" ELSE category[1]

\* (a slip: the warning does not depend on the tag)
download_warnings_any_tag(tag) == <<warn(None)>>

\* the warnings of a download
download_warnings(tag) == IF tag = "no_download" THEN <<warn(None)>> ELSE <<>>

download(date_array, tag, inst_id, data_path, user, password) ==
    [warnings |-> download_warnings(tag),
     ret |-> IF tag = "user_password" /\ credentials_missing(user, password)
             THEN Raise("ValueError")
             ELSE Return(None)]

\* the tags of the test instruments and one they do not have
Tags == {"", "no_download", "user_password", "ascend"}

\* a credential: not given, empty, given
Credentials == {None, Some(<<>>), Some(<<"m", "e">>)}

\* the dates asked for
DateArrays == SeqsUpTo({Root, Root + 1}, MaxRangeLen)

-----------------------------------------------------------------------------
(* The download from CDAWeb: nasa_cdaweb_methods.download *)

\* raise of an exception that carries arguments
RaiseWith(e, args) == [exc |-> e, val |-> args]

\* the interpreters the module is written for (from __future__ import ...)
PythonMajors == {2, 3}

\* exception[0]: the first argument under Python 2; under Python 3 an
\* exception cannot be subscripted and the expression raises TypeError
subscript0(exception, python) ==
    IF python = 2 THEN Return(exception.resp) ELSE Raise("TypeError")

\* open(saved_local_fname, 'w').write called by retrbinary with a block of
\* the file: the block is bytes, which a text-mode file accepts under
\* Python 2 only
write_block(python) == IF python = 2 THEN Return(None) ELSE Raise("TypeError")

\* exception[0][0:3] != '550' is false: the file is not there on that date
skip(resp) == Slice(resp, 0, 3) = <<"5", "5", "0">>

\* the loop over date_array from position i on.  reply[i] is what the server
\* does with the RETR of date i; acc holds the positions attempted, the local
\* files opened and the local files removed so far
RECURSIVE retrieve(_, _, _, _, _)
retrieve(date_array, reply, python, i, acc) ==
    IF i > Len(date_array) THEN [ret |-> Return(None), effects |-> acc]
    ELSE LET opened == [acc EXCEPT !.attempts = Append(@, i),
                                   !.files = @ \cup {i}]
             r == reply[i]
         IN CASE r.kind = "empty" ->
                   retrieve(date_array, reply, python, i + 1, opened)
              [] r.kind = "data" ->
                   IF write_block(python).exc # "none"
                   THEN [ret |-> write_block(python), effects |-> opened]
                   ELSE retrieve(date_array, reply, python, i + 1, opened)
              [] r.kind = "error_perm" ->
                   LET code == subscript0(r, python)
                   IN IF code.exc # "none" THEN [ret |-> code, effects |-> opened]
                      ELSE IF ~skip(code.val)
                      THEN [ret |-> RaiseWith(r.kind, r.resp), effects |-> opened]
                      ELSE retrieve(date_array, reply, python, i + 1,
                              [opened EXCEPT !.files = @ \ {i},
                                             !.removed = Append(@, i)])
              [] OTHER -> [ret |-> RaiseWith(r.kind, r.resp), effects |-> opened]

\* the whole routine, after the connection and the login: the tag looked up,
\* the directory entered, then the loop
cdaweb_download(supported_tags, date_array, tag, reply, python) ==
    LET none == [warnings |-> <<>>, attempts |-> <<>>, files |-> {}, removed |-> <<>>]
    IN IF tag \notin supported_tags
       THEN [ret |-> Raise("ValueError"), effects |-> none]
       ELSE retrieve(date_array, reply, python, 1, none)

\* what the server does with one RETR: sends a file, sends an empty file,
\* or refuses with a permanent (5xx) or a transient (4xx) error
ServerReplies ==
    {[kind |-> "data", resp |-> <<>>],
     [kind |-> "empty", resp |-> <<>>],
     [kind |-> "error_perm", resp |-> <<"5", "5", "0", " ", "n", "o">>],
     [kind |-> "error_perm", resp |-> <<"5", "5", "3", " ", "n", "o">>],
     [kind |-> "error_temp", resp |-> <<"4", "2", "1", " ", "n", "o">>]}

SupportedTags == {""}

\* the dates asked of CDAWeb
CdawebDateArrays == SeqsUpTo({Root, Root + 1}, MaxDates)

-----------------------------------------------------------------------------
(* The init hook of the test instruments: init, modify_file_list_support *)

\* values given as file_date_range: nothing, a pds.date_range, a list of
\* datetimes
NoRange == [kind |-> "NoneType", dates |-> <<>>]
DatetimeIndex(dates) == [kind |-> "DatetimeIndex", dates |-> dates]
List(dates) == [kind |-> "list", dates |-> dates]

\* bool(x), as an if statement takes it: None is false, a list is true when
\* it has an entry, and a pandas index refuses to answer (ValueError, 'The
\* truth value of a DatetimeIndex is ambiguous')
truth(x) ==
    CASE x.kind = "NoneType" -> Return(FALSE)
      [] x.kind = "list" -> Return(Len(x.dates) > 0)
      [] x.kind = "DatetimeIndex" -> Raise("ValueError")

\* an index of midnights, in seconds since 1970-01-01
Midnights(dates) == [k \in 1..Len(dates) |-> dates[k] * SecPerDay]

\* the instrument as the host hands it to init: both listing routines are
\* the module's (bound to no range), the registry lists the default window
NewInstrument ==
    [_list_files_rtn |-> None,
     files |-> [list_files_rtn |-> None,
                files |-> Midnights(date_range(ListFilesStart(Root),
                                               ListFilesStop(Root)))],
     attributes |-> {}]

\* the registry's refresh: its file list becomes the index of what its
\* listing routine returns, the bound range or else the default window
refresh(files) ==
    [files EXCEPT !.files =
        Midnights(IF IsNone(files.list_files_rtn)
                  THEN date_range(ListFilesStart(Root), ListFilesStop(Root))
                  ELSE files.list_files_rtn[1])]

\* dt.timedelta(minutes=5), in seconds
Mangle == 300

\* modify_file_list_support; events names the steps taken, in order
modify_file_list_support(self, file_date_range, mangle_file_dates) ==
    LET given == truth(file_date_range)
        fdr == Some(file_date_range.dates)
        set1 == [self EXCEPT !._list_files_rtn = fdr]
        set2 == [set1 EXCEPT !.files.list_files_rtn = fdr]
        listed == IF given.val THEN [set2 EXCEPT !.files = refresh(@)] ELSE self
        steps == IF given.val
                 THEN <<"_list_files_rtn", "files.list_files_rtn", "files.refresh">>
                 ELSE <<>>
    IN IF given.exc # "none" THEN [ret |-> given, self |-> self, events |-> <<>>]
       ELSE IF mangle_file_dates
       THEN [ret |-> Return(None),
             self |-> [listed EXCEPT !.files.files =
                          [k \in 1..Len(@) |-> @[k] + Mangle]],
             events |-> Append(steps, "files.files.index")]
       ELSE [ret |-> Return(None), self |-> listed, events |-> steps]

\* init: the acknowledgements and references, the file list support, the
\* test attributes
init(self, file_date_range, mangle_file_dates, test_init_kwrd) ==
    LET cited == [self EXCEPT !.attributes = @ \cup {"acknowledgements", "references"}]
        r == modify_file_list_support(cited, file_date_range, mangle_file_dates)
    IN IF r.ret.exc # "none" THEN r
       ELSE [r EXCEPT !.self.attributes = @ \cup {"new_thing", "test_init_kwrd"}]

\* the ranges an instrument is initialised with
InitRanges ==
    {date_range(s, s + n - 1) :
        <<s, n>> \in (RangeStarts \cup {Root - 1, Root + 1}) \X (0..MaxRangeLen)}

FileDateRanges ==
    {NoRange} \cup {DatetimeIndex(r) : r \in InitRanges} \cup {List(r) : r \in InitRanges}

-----------------------------------------------------------------------------
(* The settings of the package: pysat.params, a Parameters store *)

\* a value assigned to data_dirs: one directory (s) or a list of
\* directories (l)
Str(s) == [type |-> "str", s |-> s, l |-> <<>>]
StrList(l) == [type |-> "list", s |-> "", l |-> l]

\* the directories that exist
ValidDirs == {".", "./"}

\* the keys assigned and the values each is given
Keys == {"data_dirs", "update_files", "user_modules", "hi_there"}
Values(key) ==
    CASE key = "data_dirs" ->
           {Str("."), StrList(<<".", "./">>), Str("not_a_directory"),
            Str("/fake/directory/path")}
      [] key = "update_files" -> BOOLEAN
      [] key = "user_modules" -> {"{}"}
      [] key = "hi_there" -> {Some("hello there!"), Some("hello")}

\* the values after clear_and_restart: the defaults, no data directory, no
\* user parameter
ClearedValues == [data_dirs |-> <<>>, update_files |-> TRUE, hi_there |-> None]

\* the store of a first start: in memory and in the settings file the same,
\* no other instance constructed
InitialParams == [mem |-> ClearedValues, disk |-> ClearedValues, fresh |-> None]

\* params[key] = value: user_modules is refused, the directories of
\* data_dirs must all exist and are kept as a list, any other key takes the
\* value
setitem(mem, key, value) ==
    CASE key = "user_modules" -> [ret |-> Raise("ValueError"), mem |-> mem]
      [] key = "data_dirs" ->
           LET dirs == IF value.type = "str" THEN <<value.s>> ELSE value.l
           IN IF \E k \in 1..Len(dirs) : dirs[k] \notin ValidDirs
              THEN [ret |-> Raise("ValueError"), mem |-> mem]
              ELSE [ret |-> Return(None), mem |-> [mem EXCEPT !.data_dirs = dirs]]
      [] OTHER -> [ret |-> Return(None), mem |-> [mem EXCEPT ![key] = value]]

\* (a slip: the settings file is not written)
store_nothing(p) == p

\* store(): the values in memory go to the settings file
store(p) == [p EXCEPT !.disk = p.mem]

-----------------------------------------------------------------------------
(* The helpers of the instrument tests: remove_files *)

\* q.rfind(c): the last place of c in q, counted from 0, or -1
rfind(q, c) ==
    LET at == {i \in 1..Len(q) : q[i] = c}
    IN IF at = {} THEN -1 ELSE (CHOOSE i \in at : \A j \in at : j <= i) - 1

\* the name without what follows its last underscore, when that underscore
\* is to the right of the last dot
trimmed(the_file) ==
    IF rfind(the_file, "_") > rfind(the_file, ".")
    THEN Slice(the_file, 0, rfind(the_file, "_"))
    ELSE the_file

\* os.path.join(a, b): an absolute b stands alone, else b follows a and a
\* separator
join(a, b) ==
    IF Len(b) > 0 /\ b[1] = "/" THEN b
    ELSE IF Len(a) = 0 \/ a[Len(a)] = "/" THEN a \o b
    ELSE a \o <<"/">> \o b

\* (a slip: a list of 20 is still taken for the testing directory)
few_or_twenty(n) == n <= TestingDirLimit

\* len(inst.files.files.values) < 20
few(n) == n < TestingDirLimit

\* the loop over the listed files from position i on: regular holds the
\* paths that are regular files, unlinked the paths deleted so far
RECURSIVE unlink_listed(_, _, _, _, _)
unlink_listed(temp_dir, files, i, regular, unlinked) ==
    IF i > Len(files) THEN [regular |-> regular, unlinked |-> unlinked]
    ELSE LET file_path == join(temp_dir, trimmed(files[i]))
         IN IF file_path \in regular
            THEN unlink_listed(temp_dir, files, i + 1, regular \ {file_path},
                               Append(unlinked, file_path))
            ELSE unlink_listed(temp_dir, files, i + 1, regular, unlinked)

remove_files(inst, regular) ==
    IF few(Len(inst.files))
    THEN LET done == unlink_listed(inst.data_path, inst.files, 1, regular, <<>>)
         IN [ret |-> Return(None), warnings |-> <<>>,
             regular |-> done.regular, unlinked |-> done.unlinked]
    ELSE [ret |-> Return(None), warnings |-> <<warn(None)>>,
          regular |-> regular, unlinked |-> <<>>]

\* the data directories of the instrument under test
TempDirs == {<<"/", "t">>, <<"/", "t", "/">>}

\* listed names: with and without a date after the extension, with an
\* underscore before the extension, without extension, with a subdirectory,
\* and with the data directory in front
ListedNames ==
    {<<"a", ".", "c">>, <<"a", ".", "c", "_", "9">>, <<"b", "_", "1", ".", "c">>, <<"c", "_", "d">>, <<"s", "/", "a", ".", "c">>, <<"/", "t", "/", "a", ".", "c">>}

\* the regular files there may be, in the data directory and beside it
RegularFiles ==
    {<<"/", "t", "/", "a", ".", "c">>, <<"/", "t", "/", "b", "_", "1", ".", "c">>, <<"/", "t", "/", "c">>, <<"/", "t", "/", "s", "/", "a", ".", "c">>, <<"/", "a", ".", "c">>}

\* file lists: short ones of any names, and lists of one name around the
\* limit (the daily files of one instrument)
FileLists ==
    SeqsUpTo(ListedNames, MaxListed)
        \cup {[k \in 1..n |-> name] :
                <<n, name>> \in ((TestingDirLimit - 1)..(TestingDirLimit + 1))
                                   \X ListedNames}

-----------------------------------------------------------------------------
(* The helpers of the instrument tests: generate_instrument_list *)

\* what import_module does with a name: the module, ImportError (the module
\* or something it needs is not there), or another exception raised by the
\* module's own code
ImportOutcomes == {"module", "ImportError", "SyntaxError"}

\* what pysat.Instrument does with one sat_id and tag of a module: an
\* instrument with _test_download set, one with it cleared, or an exception
InstOutcomes == {"download", "no_download", "raises"}

\* a module as the helper meets it: how its import ends, whether it has
\* _test_dates, and how each of its sat_id and tag pairs instantiates (one
\* pair, the default one, without _test_dates)
Modules ==
    {[import |-> "ImportError", test_dates |-> FALSE, insts |-> <<>>],
     [import |-> "SyntaxError", test_dates |-> FALSE, insts |-> <<>>]}
        \cup {[import |-> "module", test_dates |-> FALSE, insts |-> <<o>>] :
                o \in InstOutcomes}
        \cup {[import |-> "module", test_dates |-> TRUE, insts |-> q] :
                q \in UNION {[1..n -> InstOutcomes] : n \in 1..MaxPairs}}

\* the data directories pysat may be set to on entry, and the directory
\* tempfile.mkdtemp() makes
DataDirs == {<<"/", "d">>, <<"/", "e">>}
TempDir == <<"/", "t", "m", "p">>

\* the pairs of one module from pair j on; an instrument is named by its
\* module's place in instrument_names and its pair's place in the module.
\* The bare except skips a pair whose instantiation raises
RECURSIVE instantiate(_, _, _, _)
instantiate(module, i, j, lists) ==
    IF j > Len(module.insts) THEN lists
    ELSE instantiate(module, i, j + 1,
            CASE module.insts[j] = "download" ->
                   [lists EXCEPT !.download = Append(@, <<i, j>>)]
              [] module.insts[j] = "no_download" ->
                   [lists EXCEPT !.no_download = Append(@, <<i, j>>)]
              [] OTHER -> lists)

\* the loop over instrument_names from place i on: ImportError is caught and
\* the name skipped, any other exception of the import leaves the loop
RECURSIVE instruments(_, _, _)
instruments(instrument_names, i, lists) ==
    IF i > Len(instrument_names) THEN [exc |-> "none", lists |-> lists]
    ELSE CASE instrument_names[i].import = "ImportError" ->
                instruments(instrument_names, i + 1, lists)
           [] instrument_names[i].import = "module" ->
                instruments(instrument_names, i + 1,
                            instantiate(instrument_names[i], i, 1, lists))
           [] OTHER -> [exc |-> instrument_names[i].import, lists |-> lists]

\* (a slip: the data directory is left where the helper put it)
restored_never(saved_path, dir_name) == dir_name

\* pysat.utils.set_data_dir(saved_path, store=False) after the loop
restored(saved_path, dir_name) == saved_path

\* generate_instrument_list with pysat.data_dir = data_dir on entry
generate_instrument_list(instrument_names, data_dir) ==
    LET done == instruments(instrument_names, 1,
                            [download |-> <<>>, no_download |-> <<>>])
    IN IF done.exc # "none"
       THEN [ret |-> Raise(done.exc), data_dir |-> TempDir]
       ELSE [ret |-> Return([names |-> instrument_names,
                             download |-> done.lists.download,
                             no_download |-> done.lists.no_download]),
             data_dir |-> restored(data_dir, TempDir)]

-----------------------------------------------------------------------------
(* Calls *)

NoCall == [fn |-> "none"]

NoEffects == [warnings |-> <<>>]

Init ==
    /\ call = NoCall
    /\ ret = Return(<<>>)
    /\ effects = NoEffects
    /\ params = InitialParams

\* a call that issues no warning and touches nothing but its result
Quiet == effects' = NoEffects /\ UNCHANGED params

\* the caller takes the result; the next call starts from there
Consume ==
    /\ call # NoCall
    /\ call' = NoCall
    /\ ret' = Return(<<>>)
    /\ Quiet

CallListFiles ==
    /\ call = NoCall
    /\ \E dp \in DataPaths, fdr \in OptRanges, td \in OptDates :
        /\ call' = [fn |-> "list_files", data_path |-> dp,
                    file_date_range |-> fdr, test_dates |-> td]
        /\ ret' = list_files(dp, fdr, td)
        /\ Quiet

CallListRemoteFiles ==
    /\ call = NoCall
    /\ \E dp \in DataPaths, s \in OptBounds, e \in OptBounds, td \in OptDates :
        /\ call' = [fn |-> "list_remote_files", data_path |-> dp,
                    start |-> s, stop |-> e, test_dates |-> td]
        /\ ret' = list_remote_files(dp, s, e, td)
        /\ Quiet

CallGenerateFakeData ==
    /\ call = NoCall
    /\ \E t0 \in Origins, num_array \in SeqsUpTo(OffsetValues, MaxLen),
          period \in Periods, data_range \in DataRanges, cyclic \in BOOLEAN :
        /\ call' = [fn |-> "generate_fake_data", t0 |-> t0, num_array |-> num_array,
                    period |-> period, data_range |-> data_range, cyclic |-> cyclic]
        /\ ret' = Return(generate_fake_data(t0, num_array, period, data_range, cyclic))
        /\ Quiet

CallGenerateTimes ==
    /\ call = NoCall
    /\ \E fnames \in SeqsUpTo(FileNames, MaxFiles), num \in 0..MaxNum, freq \in Freqs :
        /\ call' = [fn |-> "generate_times", fnames |-> fnames, num |-> num,
                    freq |-> freq]
        /\ ret' = generate_times(fnames, num, freq)
        /\ Quiet

CallGenerateTimesStr ==
    /\ call = NoCall
    /\ \E fnames \in SeqsUpTo(FileNames, MaxFiles), num \in NumTexts, freq \in Freqs :
        LET r == generate_times_num(fnames, [str |-> TRUE, v |-> num], freq)
        IN /\ call' = [fn |-> "generate_times", fnames |-> fnames, num |-> num,
                       freq |-> freq]
           /\ ret' = r.ret
           /\ effects' = [warnings |-> r.warnings]
           /\ UNCHANGED params

CallLoad ==
    /\ call = NoCall
    /\ \E fnames \in SeqsUpTo(FileNames, MaxFiles), malformed_index \in BOOLEAN,
          start_time \in StartTimes, num_samples \in LoadSamples :
        /\ call' = [fn |-> "load", fnames |-> fnames,
                    malformed_index |-> malformed_index,
                    start_time |-> start_time, num_samples |-> num_samples]
        /\ ret' = load(fnames, malformed_index, start_time, num_samples)
        /\ Quiet

CallDownload ==
    /\ call = NoCall
    /\ \E date_array \in DateArrays, tag \in Tags, user \in Credentials,
          password \in Credentials :
        LET r == download(date_array, tag, "", None, user, password)
        IN /\ call' = [fn |-> "download", date_array |-> date_array, tag |-> tag,
                       user |-> user, password |-> password]
           /\ ret' = r.ret
           /\ effects' = [warnings |-> r.warnings]
           /\ UNCHANGED params

CallCdawebDownload ==
    /\ call = NoCall
    /\ \E date_array \in CdawebDateArrays, tag \in {"", "level_9"},
          python \in PythonMajors :
        \E reply \in [1..Len(date_array) -> ServerReplies] :
            LET r == cdaweb_download(SupportedTags, date_array, tag, reply, python)
            IN /\ call' = [fn |-> "nasa_cdaweb_methods.download",
                           date_array |-> date_array, tag |-> tag,
                           reply |-> reply, python |-> python]
               /\ ret' = r.ret
               /\ effects' = r.effects
               /\ UNCHANGED params

CallInit ==
    /\ call = NoCall
    /\ \E file_date_range \in FileDateRanges, mangle_file_dates \in BOOLEAN,
          test_init_kwrd \in {None, Some(0), Some(1)} :
        LET r == init(NewInstrument, file_date_range, mangle_file_dates,
                      test_init_kwrd)
        IN /\ call' = [fn |-> "init", file_date_range |-> file_date_range,
                       mangle_file_dates |-> mangle_file_dates,
                       test_init_kwrd |-> test_init_kwrd]
           /\ ret' = r.ret
           /\ effects' = [warnings |-> <<>>, self |-> r.self, events |-> r.events]
           /\ UNCHANGED params

\* the assignment a read follows directly, if any
Assigned == IF call.fn = "params.__setitem__" THEN call ELSE NoCall

SetItem ==
    \E key \in Keys : \E value \in Values(key) :
        LET r == setitem(params.mem, key, value)
        IN /\ call' = [fn |-> "params.__setitem__", key |-> key, value |-> value,
                       accepted |-> r.ret.exc = "none"]
           /\ ret' = r.ret
           /\ params' = IF r.ret.exc = "none"
                        THEN store([params EXCEPT !.mem = r.mem])
                        ELSE params
           /\ effects' = NoEffects

\* eval(params.__repr__()): a new instance for the same path reads the
\* settings file
NewParameters ==
    /\ call' = [fn |-> "Parameters", after |-> Assigned]
    /\ ret' = Return(params.disk)
    /\ params' = [params EXCEPT !.fresh = Some(params.disk)]
    /\ effects' = NoEffects

\* reload(pysat): the package's store is constructed anew from the settings
\* file
Reload ==
    /\ call' = [fn |-> "reload", after |-> Assigned]
    /\ ret' = Return(params.disk)
    /\ params' = [params EXCEPT !.mem = params.disk]
    /\ effects' = NoEffects

\* restore_defaults(): the parameters that have a default take it, the
\* others stay
RestoreDefaults ==
    /\ call' = [fn |-> "params.restore_defaults"]
    /\ ret' = Return(None)
    /\ params' = store([params EXCEPT !.mem.update_files = ClearedValues.update_files])
    /\ effects' = NoEffects

ClearAndRestart ==
    /\ call' = [fn |-> "params.clear_and_restart"]
    /\ ret' = Return(None)
    /\ params' = store([params EXCEPT !.mem = ClearedValues])
    /\ effects' = NoEffects

CallRemoveFiles ==
    /\ call = NoCall
    /\ \E temp_dir \in TempDirs, files \in FileLists,
          regular \in SUBSET RegularFiles :
        LET r == remove_files([data_path |-> temp_dir, files |-> files], regular)
        IN /\ call' = [fn |-> "remove_files", data_path |-> temp_dir,
                       files |-> files, regular |-> regular]
           /\ ret' = r.ret
           /\ effects' = [warnings |-> r.warnings, regular |-> r.regular,
                          unlinked |-> r.unlinked]
           /\ UNCHANGED params

CallGenerateInstrumentList ==
    /\ call = NoCall
    /\ \E instrument_names \in SeqsUpTo(Modules, MaxModules), data_dir \in DataDirs :
        LET r == generate_instrument_list(instrument_names, data_dir)
        IN /\ call' = [fn |-> "generate_instrument_list",
                       instrument_names |-> instrument_names,
                       data_dir |-> data_dir]
           /\ ret' = r.ret
           /\ effects' = [warnings |-> <<>>, data_dir |-> r.data_dir]
           /\ UNCHANGED params

NextFiles == CallListFiles \/ CallListRemoteFiles \/ Consume

SpecFiles == Init /\ [][NextFiles]_vars

NextSignal == CallGenerateFakeData \/ Consume

SpecSignal == Init /\ [][NextSignal]_vars

NextTimes == CallGenerateTimes \/ Consume

SpecTimes == Init /\ [][NextTimes]_vars

NextTimesStr == CallGenerateTimesStr \/ Consume

SpecTimesStr == Init /\ [][NextTimesStr]_vars

NextLoad == CallLoad \/ Consume

SpecLoad == Init /\ [][NextLoad]_vars

NextDownload == CallDownload \/ Consume

SpecDownload == Init /\ [][NextDownload]_vars

NextCdaweb == CallCdawebDownload \/ Consume

SpecCdaweb == Init /\ [][NextCdaweb]_vars

NextInit == CallInit \/ Consume

SpecInit == Init /\ [][NextInit]_vars

NextParams ==
    SetItem \/ NewParameters \/ Reload \/ RestoreDefaults \/ ClearAndRestart

SpecParams == Init /\ [][NextParams]_vars

NextRemove == CallRemoveFiles \/ Consume

SpecRemove == Init /\ [][NextRemove]_vars

NextInstruments == CallGenerateInstrumentList \/ Consume

SpecInstruments == Init /\ [][NextInstruments]_vars

Next ==
    \/ NextFiles \/ NextSignal \/ NextTimes \/ NextTimesStr \/ NextLoad
    \/ NextDownload \/ NextCdaweb \/ NextInit \/ NextParams
    \/ NextRemove \/ NextInstruments

Spec == Init /\ [][Next]_vars

-----------------------------------------------------------------------------
(* Reading the state *)

Returned == ret.exc = "none"
Last(q) == q[Len(q)]
EndsWith(q, suffix) ==
    /\ Len(q) >= Len(suffix)
    /\ SubSeq(q, Len(q) - Len(suffix) + 1, Len(q)) = suffix

\* list_files asked for its default window around a reference date
DefaultLocal ==
    /\ call.fn = "list_files"
    /\ IsNone(call.file_date_range)
    /\ ~IsNone(call.test_dates)

\* list_remote_files asked for its default window around a reference date
DefaultRemote ==
    /\ call.fn = "list_remote_files"
    /\ IsNone(call.start)
    /\ IsNone(call.stop)
    /\ ~IsNone(call.test_dates)

\* one entry per calendar day: each timestamp is the day after the one before
Contiguous(index) == \A i \in 1..(Len(index) - 1) : index[i + 1] = index[i] + 1

\* the calendar date n years from c, the 29th of February falling back to the 28th
YearsFrom(c, n) ==
    [y |-> c.y + n, m |-> c.m,
     d |-> IF c.m = 2 /\ c.d = 29 /\ ~IsLeap(c.y + n) THEN 28 ELSE c.d]

\* the calendar date one month after c, the day falling back to the month's last
MonthAfter(c) ==
    LET y == IF c.m = 12 THEN c.y + 1 ELSE c.y
        m == IF c.m = 12 THEN 1 ELSE c.m + 1
    IN [y |-> y, m |-> m, d |-> Min(c.d, DaysInMonth(y, m))]

DigitVal(ch) == CHOOSE v \in 0..9 : DigitChars[v + 1] = ch
IsDigits(q) == \A i \in 1..Len(q) : \E v \in 0..9 : DigitChars[v + 1] = q[i]

\* q is prefix, then the date c as YYYY-MM-DD, then '.nofile'
WellFormedName(q, prefix, c) ==
    LET n == Len(prefix)
    IN /\ Len(q) = n + 17
       /\ SubSeq(q, 1, n) = prefix
       /\ IsDigits(SubSeq(q, n + 1, n + 4))
       /\ 1000 * DigitVal(q[n + 1]) + 100 * DigitVal(q[n + 2])
            + 10 * DigitVal(q[n + 3]) + DigitVal(q[n + 4]) = c.y
       /\ q[n + 5] = "-"
       /\ IsDigits(SubSeq(q, n + 6, n + 7))
       /\ 10 * DigitVal(q[n + 6]) + DigitVal(q[n + 7]) = c.m
       /\ q[n + 8] = "-"
       /\ IsDigits(SubSeq(q, n + 9, n + 10))
       /\ 10 * DigitVal(q[n + 9]) + DigitVal(q[n + 10]) = c.d
       /\ SubSeq(q, n + 11, n + 17) = NoFile

-----------------------------------------------------------------------------
(* C1: with no explicit file_date_range, list_files returns a catalog whose *)
(* first entry is dated R - 1 year, whose last entry is dated               *)
(* R + 2 years - 1 day, with exactly one entry per calendar day between     *)
(* them; for R = 2009-01-01 the first filename ends in 2008-01-01.nofile    *)
(* and the last in 2010-12-31.nofile.                                       *)
C1_DefaultWindow ==
    DefaultLocal =>
        LET R == CivilFromDays(call.test_dates[1])
            index == ret.val.index
            names == ret.val.names
        IN /\ Returned
           /\ Len(index) >= 1
           /\ Len(names) = Len(index)
           /\ CivilFromDays(index[1]) = YearsFrom(R, -1)
           /\ CivilFromDays(Last(index) + 1) = YearsFrom(R, 2)
           /\ Contiguous(index)
           /\ (call.test_dates[1] = Root =>
                 /\ EndsWith(names[1], <<"2", "0", "0", "8", "-", "0", "1", "-", "0", "1", ".", "n", "o", "f", "i", "l", "e">>)
                 /\ EndsWith(Last(names), <<"2", "0", "1", "0", "-", "1", "2", "-", "3", "1", ".", "n", "o", "f", "i", "l", "e">>))

C1_Witness ==
    /\ DefaultLocal
    /\ call.test_dates[1] = Root
    /\ Returned
    /\ Len(ret.val.index) = 1096
    /\ ret.val.names[1] = <<"d", "/">> \o <<"2", "0", "0", "8", "-", "0", "1", "-", "0", "1", ".", "n", "o", "f", "i", "l", "e">>

(* C2: every filename of a catalog is data_path, then the entry's date as   *)
(* zero-padded YYYY-MM-DD, then '.nofile'; a data_path of None is the empty *)
(* prefix.                                                                  *)
C2_FilenameFormat ==
    (call.fn \in {"list_files", "list_remote_files"} /\ Returned) =>
        LET prefix == IF IsNone(call.data_path) THEN <<>> ELSE call.data_path[1]
        IN /\ Len(ret.val.names) = Len(ret.val.index)
           /\ \A i \in 1..Len(ret.val.index) :
                 WellFormedName(ret.val.names[i], prefix,
                                CivilFromDays(ret.val.index[i]))

C2_Witness ==
    /\ call.fn = "list_files"
    /\ IsNone(call.data_path)
    /\ Returned
    /\ Len(ret.val.names) = 2
    /\ ret.val.names[2] = <<"2", "0", "0", "8", "-", "0", "2", "-", "2", "9", ".", "n", "o", "f", "i", "l", "e">>

(* C3: list_files with neither a file_date_range nor a reference date       *)
(* raises; it returns no catalog.                                           *)
C3_NoWindowFails ==
    (call.fn = "list_files" /\ IsNone(call.file_date_range)
        /\ IsNone(call.test_dates)) =>
        /\ ret.exc # "none"
        /\ ret.val = <<>>

C3_Witness ==
    /\ call.fn = "list_files"
    /\ IsNone(call.file_date_range)
    /\ IsNone(call.test_dates)
    /\ ret.exc = "TypeError"

(* C4: the default catalog of list_remote_files starts on the day the       *)
(* default catalog of list_files starts, ends one calendar month after the  *)
(* day that one ends, and holds every entry of it, timestamp and filename,  *)
(* at the same place.                                                       *)
C4_LocalPrefixOfRemote ==
    DefaultRemote =>
        LET loc == list_files(call.data_path, None, call.test_dates)
        IN /\ Returned
           /\ loc.exc = "none"
           /\ Len(loc.val.index) >= 1
           /\ Len(ret.val.index) > Len(loc.val.index)
           /\ ret.val.index[1] = loc.val.index[1]
           /\ CivilFromDays(Last(ret.val.index))
                = MonthAfter(CivilFromDays(Last(loc.val.index)))
           /\ \A i \in 1..Len(loc.val.index) :
                 /\ ret.val.index[i] = loc.val.index[i]
                 /\ ret.val.names[i] = loc.val.names[i]

C4_Witness ==
    /\ DefaultRemote
    /\ call.test_dates[1] = Root
    /\ Returned
    /\ Len(ret.val.index) = 1096 + 31
    /\ ret.val.names[1096] = <<"d", "/">> \o <<"2", "0", "1", "0", "-", "1", "2", "-", "3", "1", ".", "n", "o", "f", "i", "l", "e">>
    /\ Last(ret.val.names) = <<"d", "/">> \o <<"2", "0", "1", "1", "-", "0", "1", "-", "3", "1", ".", "n", "o", "f", "i", "l", "e">>

(* C5 as stated: with no explicit start and stop, list_remote_files covers  *)
(* the days from R - 1 year to (R + 2 years + 1 month) - 1 day, for every   *)
(* reference date R.                                                        *)
C5_MonthBeforeDay ==
    DefaultRemote =>
        LET R == call.test_dates[1]
        IN /\ Returned
           /\ ret.val.index[1] = AddYears(R, -1)
           /\ Last(ret.val.index) = AddDays(AddMonths(AddYears(R, 2), 1), -1)
           /\ Contiguous(ret.val.index)

(* C5 amended: with no explicit start and stop, list_remote_files covers    *)
(* the days from R - 1 year to ((R + 2 years) - 1 day) + 1 calendar month:  *)
(* the day is taken off first and the calendar month added last.            *)
C5_DayBeforeMonth ==
    DefaultRemote =>
        LET R == CivilFromDays(call.test_dates[1])
            index == ret.val.index
        IN /\ Returned
           /\ Len(index) >= 1
           /\ CivilFromDays(index[1]) = YearsFrom(R, -1)
           /\ CivilFromDays(Last(index))
                = MonthAfter(CivilFromDays(DaysFromCivil(YearsFrom(R, 2)) - 1))
           /\ Contiguous(index)

C5_Witness ==
    /\ DefaultRemote
    /\ CivilFromDays(call.test_dates[1]) = [y |-> RootYear, m |-> 3, d |-> 1]
    /\ Returned
    /\ CivilFromDays(Last(ret.val.index)) = [y |-> RootYear + 2, m |-> 3, d |-> 28]
    /\ EndsWith(Last(ret.val.names), <<"2", "0", "1", "1", "-", "0", "3", "-", "2", "8", ".", "n", "o", "f", "i", "l", "e">>)

-----------------------------------------------------------------------------
(* Reading a signal *)

Cyclic == call.fn = "generate_fake_data" /\ call.cyclic
Monotonic == call.fn = "generate_fake_data" /\ ~call.cyclic

NonDecreasing(q) == \A i \in 1..(Len(q) - 1) : q[i] <= q[i + 1]

\* the fraction v against the whole number n
FracGeq(v, n) == v.num >= n * v.den
FracLess(v, n) == v.num < n * v.den
\* the fraction v against the fraction a / b
FracIs(v, a, b) == IF v.den = b THEN v.num = a ELSE v.num * b = a * v.den

(* C6: with cyclic=True every output value v has                           *)
(* data_range[0] <= v < data_range[1], for positive, zero and negative      *)
(* origins, and the output does not change when t0 becomes t0 + k * period. *)
C6_CyclicBounded ==
    Cyclic =>
        /\ Len(ret.val) = Len(call.num_array)
        /\ \A i \in 1..Len(ret.val) :
              /\ ret.val[i].den > 0
              /\ FracGeq(ret.val[i], call.data_range[1])
              /\ FracLess(ret.val[i], call.data_range[2])
        /\ \A k \in -MaxShift..MaxShift :
              generate_fake_data(call.t0 + k * call.period, call.num_array,
                                 call.period, call.data_range, TRUE) = ret.val

C6_Witness ==
    /\ Cyclic
    /\ call.t0 = -SecPerDay
    /\ call.period = LtPeriod
    /\ call.data_range = <<-90, 90>>
    /\ call.num_array = <<-1, LtPeriod, 100>>
    /\ FracLess(ret.val[3], 0)

(* C7: with cyclic=True the value for offset o is                           *)
(* (((t0 mod period) + o) mod period) * (data_range[1] - data_range[0])     *)
(* / period + data_range[0]; with t0 = 0, period = 5820 and range [0, 24]   *)
(* the offsets 0, 100, 5820 give 0, 100 * 24 / 5820, 0.                     *)
C7_CyclicValue ==
    Cyclic =>
        /\ Len(ret.val) = Len(call.num_array)
        /\ \A i \in 1..Len(ret.val) :
              FracIs(ret.val[i],
                     (((call.t0 % call.period) + call.num_array[i]) % call.period)
                         * (call.data_range[2] - call.data_range[1])
                       + call.data_range[1] * call.period,
                     call.period)
        /\ (/\ call.t0 = 0
            /\ call.period = 5820
            /\ call.data_range = <<0, 24>>
            /\ call.num_array = <<0, 100, 5820>>) =>
              /\ FracIs(ret.val[1], 0, 1)
              /\ FracIs(ret.val[2], 100 * 24, 5820)
              /\ FracIs(ret.val[3], 0, 1)

C7_Witness ==
    /\ Cyclic
    /\ call.t0 = 0
    /\ call.period = 5820
    /\ call.data_range = <<0, 24>>
    /\ call.num_array = <<0, 100, 5820>>
    /\ ret.val[2].num > 0
    /\ ret.val[3].num = 0

(* C8: with cyclic=False the output value for offset o is                   *)
(* floor((t0 + o) / period), also where t0 + o is negative.                 *)
C8_Floor ==
    Monotonic =>
        \A i \in 1..Len(call.num_array) :
            ret.val[i] = (call.t0 + call.num_array[i]) \div call.period

(* C9: with cyclic=False and a positive period, a non-decreasing offset     *)
(* array gives a non-decreasing sequence of integers, for every origin.     *)
C9_MonotonicNonDecreasing ==
    (Monotonic /\ NonDecreasing(call.num_array)) =>
        /\ Len(ret.val) = Len(call.num_array)
        /\ \A i \in 1..Len(ret.val) : ret.val[i] \in Int
        /\ NonDecreasing(ret.val)

C9_Witness ==
    /\ Monotonic
    /\ call.t0 = -SecPerDay
    /\ call.period = LtPeriod
    /\ call.num_array = <<0, 100, LtPeriod>>
    /\ ret.val[1] < 0
    /\ ret.val[1] = ret.val[2]
    /\ ret.val[2] < ret.val[3]

-----------------------------------------------------------------------------
(* C10: generate_times on N filenames with cap M returns at most N * M      *)
(* samples, exactly N * M when the frequency yields at least M ticks per    *)
(* day; the seconds array and the index have the same length; and the       *)
(* elapsed seconds of the first sample of file i + 1 exceed those of the    *)
(* last sample of file i, whatever dates the filenames encode.              *)
C10_TimesAcrossFiles ==
    (call.fn = "generate_times" /\ Returned) =>
        LET N == Len(call.fnames)
            M == call.num
            ticks == 86400 \div call.freq + (IF 86400 % call.freq = 0 THEN 0 ELSE 1)
            each == IF ticks >= M THEN M ELSE ticks
            uts == ret.val.uts
        IN /\ Len(uts) <= N * M
           /\ (ticks >= M => Len(uts) = N * M)
           /\ Len(uts) = N * each
           /\ Len(ret.val.index) = Len(uts)
           /\ Len(ret.val.dates) = N
           /\ \A i \in 1..(N - 1) : each >= 1 => uts[i * each + 1] > uts[i * each]

C10_Witness ==
    /\ call.fn = "generate_times"
    /\ Returned
    /\ call.num = 3
    /\ call.freq = 100
    /\ Len(call.fnames) = 2
    /\ ret.val.dates = <<Root + 1, Root>>
    /\ ret.val.index[4] < ret.val.index[3]
    /\ ret.val.uts = <<0, 100, 200, 86400, 86500, 86600>>

-----------------------------------------------------------------------------
(* C11: generate_times called with the sample count as text is accepted: a  *)
(* deprecation warning is issued, the count is coerced to its numeric       *)
(* value, the result is the one of the numeric count, no error is raised.   *)
C11_TextCountAccepted ==
    call.fn = "generate_times" =>
        /\ effects.warnings = <<"DeprecationWarning">>
        /\ ret = generate_times(call.fnames, int(call.num), call.freq)

-----------------------------------------------------------------------------
\* the index generate_times builds for the files and the cap of the last call
Unmodified == generate_times(call.fnames, call.num_samples, 100).val.index

(* C12: a load with malformed_index=True returns a time index that has at   *)
(* positions 0..2 the original values of positions 3..5 and at 3..5 those   *)
(* of 0..2, at positions 6..8 the original value of position 6, and at      *)
(* every other position the value of the unmodified index.                  *)
C12_MalformedIndex ==
    (call.fn = "load" /\ call.malformed_index
        /\ generate_times(call.fnames, call.num_samples, 100).exc = "none"
        /\ Len(Unmodified) >= 9) =>
        /\ Returned
        /\ Len(ret.val.time) = Len(Unmodified)
        /\ \A k \in 1..Len(Unmodified) :
              ret.val.time[k] = Unmodified[CASE k \in 1..3 -> k + 3
                                             [] k \in 4..6 -> k - 3
                                             [] k \in 7..9 -> 7
                                             [] OTHER -> k]

(* C13: the corruption of a malformed load changes only the timestamp       *)
(* index: uts and every signal derived from it (mlt, slt, longitude,        *)
(* latitude, the dummy fields) are those of the load of the same files      *)
(* with malformed_index=False.                                              *)
C13_OnlyIndexChanges ==
    (call.fn = "load" /\ call.malformed_index
        /\ generate_times(call.fnames, call.num_samples, 100).exc = "none"
        /\ Len(Unmodified) >= 9) =>
        LET plain == load(call.fnames, FALSE, call.start_time, call.num_samples)
        IN /\ Returned
           /\ plain.exc = "none"
           /\ ret.val.data = plain.val.data

(* C19: a load with a non-empty list of filenames returns a dataset and     *)
(* metadata, and every field of the dataset has as its time axis the same   *)
(* sample index, the one generate_times builds.                             *)
C19_LoadReturnsDataset ==
    (call.fn = "load" /\ ~call.malformed_index /\ Len(call.fnames) > 0
        /\ generate_times(call.fnames, call.num_samples, 100).exc = "none") =>
        /\ Returned
        /\ ret.val.time = Unmodified
        /\ \A field \in DOMAIN ret.val.data :
              Len(ret.val.data[field]) = Len(ret.val.time)

-----------------------------------------------------------------------------
\* a credential that is None or empty
NotSupplied(x) == x = None \/ x = Some(<<>>)

C15_NoDownloadWarns ==
    call.fn = "download" =>
        IF call.tag = "no_download"
        THEN /\ Len(effects.warnings) >= 1
             /\ effects.warnings[1] = "UserWarning"
             /\ Returned
        ELSE \A k \in 1..Len(effects.warnings) : effects.warnings[k] # "UserWarning"

C15_Witness ==
    /\ call.fn = "download"
    /\ call.tag = "no_download"
    /\ Len(call.date_array) > 0
    /\ effects.warnings = <<"UserWarning">>
    /\ ret = Return(None)

-----------------------------------------------------------------------------
\* the last call is a CDAWeb download of a supported tag
Cdaweb == call.fn = "nasa_cdaweb_methods.download" /\ call.tag \in SupportedTags

\* the server refuses date k with a permission error of code 550
Refused550(k) ==
    /\ call.reply[k].kind = "error_perm"
    /\ SubSeq(call.reply[k].resp, 1, 3) = <<"5", "5", "0">>

\* the server answers date k with an FTP error
FtpError(k) == call.reply[k].kind \in {"error_perm", "error_temp"}

\* position k of date_array was attempted
Attempted(k) == \E a \in 1..Len(effects.attempts) : effects.attempts[a] = k

(* C16: in the CDAWeb download a retrieval that fails with an FTP           *)
(* permission error whose code begins with '550' is not propagated: the     *)
(* date is skipped and the loop goes on, so a 550 on date k never prevents  *)
(* the retrieval of date k+1.                                               *)
C16_Skip550 ==
    Cdaweb =>
        \A k \in 1..Len(call.date_array) :
            (Attempted(k) /\ Refused550(k)) =>
                /\ ~(Len(effects.attempts) = k /\ ret.exc # "none")
                /\ k < Len(call.date_array) => Attempted(k + 1)

(* C17: in the CDAWeb download each date of date_array is attempted at      *)
(* most once and in array order; a retrieval that fails with an FTP error   *)
(* other than a 550 permission error propagates that same error unchanged,  *)
(* is not retried, and no later date is attempted.                          *)
C17_FatalPropagated ==
    Cdaweb =>
        /\ Len(effects.attempts) <= Len(call.date_array)
        /\ \A a \in 1..Len(effects.attempts) : effects.attempts[a] = a
        /\ \A k \in 1..Len(call.date_array) :
              (Attempted(k) /\ FtpError(k) /\ ~Refused550(k)) =>
                  /\ ret = RaiseWith(call.reply[k].kind, call.reply[k].resp)
                  /\ Len(effects.attempts) = k

-----------------------------------------------------------------------------
\* step a comes before step b in the events of the last call
Before(a, b) ==
    \E i, j \in 1..Len(effects.events) :
        i < j /\ effects.events[i] = a /\ effects.events[j] = b

\* the step is among the events of the last call
Took(a) == \E i \in 1..Len(effects.events) : effects.events[i] = a

(* C18: a test instrument initialised with a file_date_range has the        *)
(* listing routine replaced on the instrument (_list_files_rtn) and on its  *)
(* registry (files.list_files_rtn) by one bound to that range, the refresh  *)
(* of the registry comes after both substitutions, so that the registry's   *)
(* file list covers exactly the range, and the 5-minute shift of            *)
(* mangle_file_dates comes after the refresh; without file_date_range       *)
(* neither routine is replaced and nothing is refreshed.                    *)
C18_RangeSubstitution ==
    call.fn = "init" =>
        IF call.file_date_range.kind # "NoneType"
        THEN LET range == call.file_date_range.dates
                 shift == IF call.mangle_file_dates THEN 300 ELSE 0
             IN /\ Returned
                /\ effects.self._list_files_rtn = Some(range)
                /\ effects.self.files.list_files_rtn = Some(range)
                /\ Before("_list_files_rtn", "files.refresh")
                /\ Before("files.list_files_rtn", "files.refresh")
                /\ call.mangle_file_dates => Before("files.refresh", "files.files.index")
                /\ effects.self.files.files =
                      [k \in 1..Len(range) |-> range[k] * SecPerDay + shift]
        ELSE /\ effects.self._list_files_rtn = None
             /\ effects.self.files.list_files_rtn = None
             /\ ~Took("files.refresh")

-----------------------------------------------------------------------------
\* the value an accepted assignment is read back as
ReadBack(key, value) ==
    IF key = "data_dirs" /\ value.type = "str" THEN <<value.s>>
    ELSE IF key = "data_dirs" THEN value.l
    ELSE value

(* C20: after an accepted assignment params[key] = value (a standard        *)
(* parameter, a user parameter, data_dirs as a valid directory or list), a  *)
(* new Parameters instance for the same path and a reload of the package    *)
(* read the same value for the key; one directory assigned to data_dirs is  *)
(* read as a list of one.                                                   *)
C20_ReadBack ==
    (call.fn \in {"Parameters", "reload"} /\ call.after.fn = "params.__setitem__"
        /\ call.after.accepted) =>
        /\ ret.val[call.after.key] = ReadBack(call.after.key, call.after.value)
        /\ call.fn = "Parameters" =>
              params.fresh[1][call.after.key] = params.mem[call.after.key]
        /\ call.fn = "reload" =>
              params.mem[call.after.key] = ReadBack(call.after.key, call.after.value)

C20_Witness ==
    /\ call.fn = "Parameters"
    /\ call.after.fn = "params.__setitem__"
    /\ call.after.key = "data_dirs"
    /\ call.after.value = Str(".")
    /\ params.fresh = Some(params.mem)
    /\ params.mem.data_dirs = <<".">>

-----------------------------------------------------------------------------
\* the path lies in the directory: it starts with the directory and a
\* separator
Inside(path, dir) ==
    LET d == IF Len(dir) > 0 /\ dir[Len(dir)] = "/" THEN dir ELSE dir \o <<"/">>
    IN Len(path) > Len(d) /\ SubSeq(path, 1, Len(d)) = d

\* the listed name x as the helper looks for it: as it is, or cut at its
\* last underscore when no dot follows that underscore
Sought(x) ==
    {x} \cup {SubSeq(x, 1, u - 1) :
                u \in {u \in 1..Len(x) :
                         /\ x[u] = "_"
                         /\ \A j \in (u + 1)..Len(x) : x[j] \notin {"_", "."}}}

-----------------------------------------------------------------------------
\* the instruments of the last call whose instantiation gives outcome
Instantiated(outcome) ==
    {<<i, j>> \in (1..Len(call.instrument_names)) \X (1..MaxPairs) :
        /\ call.instrument_names[i].import = "module"
        /\ j <= Len(call.instrument_names[i].insts)
        /\ call.instrument_names[i].insts[j] = outcome}

\* the members of a list
Members(q) == {q[k] : k \in 1..Len(q)}

\* no instrument is twice in one list
NoRepeat(q) == \A k, l \in 1..Len(q) : q[k] = q[l] => k = l

\* the data directory is the one of entry, and every instrument that was
\* instantiated is in the list of its flag and in no other
ListsAsFlagged ==
    /\ effects.data_dir = call.data_dir
    /\ Members(ret.val.download) = Instantiated("download")
    /\ Members(ret.val.no_download) = Instantiated("no_download")
    /\ NoRepeat(ret.val.download)
    /\ NoRepeat(ret.val.no_download)

\* an import of the last call ends in something else than the module or
\* ImportError
ImportBreaks ==
    \E i \in 1..Len(call.instrument_names) :
        call.instrument_names[i].import \notin {"module", "ImportError"}

(* C22 as stated: generate_instrument_list returns with the data directory *)
(* of entry however many imports or instantiations failed; every instrument *)
(* instantiated is in exactly one of 'download' and 'no_download', by its   *)
(* _test_download flag; failed imports and instantiations are skipped       *)
(* without aborting the iteration.                                          *)
C22_EveryFailureSkipped ==
    call.fn = "generate_instrument_list" => (Returned /\ ListsAsFlagged)

(* C22, amended: the iteration skips imports that fail with ImportError and *)
(* instantiations that fail with any exception, and then returns with the   *)
(* data directory of entry and every instantiated instrument in exactly the *)
(* list of its flag; an import that raises anything else ends the call with *)
(* that exception and leaves the data directory at the temporary one.       *)
C22_ImportErrorSkipped ==
    call.fn = "generate_instrument_list" =>
        IF ImportBreaks
        THEN /\ ~Returned
             /\ effects.data_dir = TempDir
        ELSE Returned /\ ListsAsFlagged

C22_Witness ==
    /\ call.fn = "generate_instrument_list"
    /\ Len(call.instrument_names) = 2
    /\ call.instrument_names[1].import = "ImportError"
    /\ call.instrument_names[2].insts = <<"raises", "no_download">>
    /\ Returned
    /\ ret.val.no_download = <<<<2, 2>>>>
    /\ effects.data_dir = call.data_dir

-----------------------------------------------------------------------------
(* C23: a load with malformed_index=True gives a time index with as many    *)
(* entries as the elapsed-seconds array for every number of samples, fewer  *)
(* than 9 included: the swap of the blocks and the triple overwrite never   *)
(* lengthen or shorten the index and never raise.                           *)
C23_SameLength ==
    (call.fn = "load" /\ call.malformed_index
        /\ generate_times(call.fnames, call.num_samples, 100).exc = "none") =>
        /\ Returned
        /\ Len(ret.val.time) = Len(ret.val.data.uts)

====
